---- MODULE Spec2Model ----
(***************************************************************************)
(* Model of the Amplitude Audio SDK asset build scripts                    *)
(* (scripts/common.py, build_project.py, clean_project.py and              *)
(* build_assets.py).                                                       *)
(*                                                                         *)
(* Paths are Python strings; they are modelled as sequences of one-        *)
(* character strings so that str.endswith, `in`, str.replace,              *)
(* os.path.join and os.path.dirname are computed as Python computes them.  *)
(***************************************************************************)
EXTENDS Integers, Sequences, FiniteSets, TLC

VARIABLES
    fs,               \* the filesystem: path -> [kind, mtime], for the paths that exist
    schema_dirs,      \* common.SCHEMA_PATHS: ordered list of schema directories
    project_path,     \* CommandOptions.project_path
    build_path,       \* CommandOptions.build_path
    pc,               \* position of the running script
    conversion_data,  \* the list returned by get_conversion_data
    ui,               \* position of the nested loops: index of the current (element, json)
    compiled,         \* the argument lists handed to run_subprocess, in order
    checked,          \* observation: one record per unit whose staleness check returned
    error,            \* the exception that ended the script ("none" when there is none)
    ret,              \* main's return value (-1 while running or when an exception escapes)
    call              \* the function call under observation in the call specifications

vars == <<fs, schema_dirs, project_path, build_path, pc, conversion_data,
          ui, compiled, checked, error, ret, call>>

----------------------------------------------------------------------------
(* Python string primitives *)

Slash == <<"/">>
Dot == <<".">>

\* s[i:i+len(p)] == p  (1-based i)
MatchAt(s, p, i) == i + Len(p) - 1 <= Len(s) /\ \A k \in 1..Len(p) : s[i + k - 1] = p[k]

\* s.startswith(p)
StartsWith(s, p) == MatchAt(s, p, 1)

\* s.endswith(p)
EndsWith(s, p) == Len(p) <= Len(s) /\ MatchAt(s, p, Len(s) - Len(p) + 1)

\* p in s  (p not empty)
Contains(s, p) == \E i \in 1..(Len(s) - Len(p) + 1) : MatchAt(s, p, i)

\* s.replace(old, new): every non-overlapping occurrence, leftmost first (old not empty)
RECURSIVE ReplaceFrom(_, _, _, _)
ReplaceFrom(s, old, new, i) ==
    IF i > Len(s) THEN <<>>
    ELSE IF MatchAt(s, old, i) THEN new \o ReplaceFrom(s, old, new, i + Len(old))
    ELSE <<s[i]>> \o ReplaceFrom(s, old, new, i + 1)

Replace(s, old, new) == ReplaceFrom(s, old, new, 1)

\* os.path.join(a, b) on POSIX
Join(a, b) ==
    IF StartsWith(b, Slash) THEN b
    ELSE IF a = <<>> \/ EndsWith(a, Slash) THEN a \o b
    ELSE a \o Slash \o b

\* the largest i with s[i] = "/", 0 when there is none  (s.rfind("/") + 1)
LastSlash(s) ==
    LET I == {i \in 1..Len(s) : s[i] = "/"}
    IN IF I = {} THEN 0 ELSE CHOOSE i \in I : \A k \in I : k <= i

RECURSIVE RStripSlash(_)
RStripSlash(s) == IF s # <<>> /\ s[Len(s)] = "/" THEN RStripSlash(SubSeq(s, 1, Len(s) - 1)) ELSE s

\* os.path.dirname(p) on POSIX
Dirname(p) ==
    LET head == SubSeq(p, 1, LastSlash(p))
    IN IF head # <<>> /\ (\E i \in 1..Len(head) : head[i] # "/") THEN RStripSlash(head) ELSE head

\* os.path.basename(p) on POSIX
Basename(p) == SubSeq(p, LastSlash(p) + 1, Len(p))

----------------------------------------------------------------------------
(* common.py, module constants *)

SOUNDS_DIR_NAME == <<"s", "o", "u", "n", "d", "s">>
COLLECTIONS_DIR_NAME == <<"c", "o", "l", "l", "e", "c", "t", "i", "o", "n", "s">>
SOUNDBANKS_DIR_NAME == <<"s", "o", "u", "n", "d", "b", "a", "n", "k", "s">>
EVENTS_DIR_NAME == <<"e", "v", "e", "n", "t", "s">>
ATTENUATORS_DIR_NAME == <<"a", "t", "t", "e", "n", "u", "a", "t", "o", "r", "s">>
SWITCHES_DIR_NAME == <<"s", "w", "i", "t", "c", "h", "e", "s">>
SWITCH_CONTAINERS_DIR_NAME == <<"s", "w", "i", "t", "c", "h", "_", "c", "o", "n", "t", "a", "i", "n", "e", "r", "s">>
RTPC_DIR_NAME == <<"r", "t", "p", "c">>
EFFECTS_DIR_NAME == <<"e", "f", "f", "e", "c", "t", "s">>
ENVIRONMENTS_DIR_NAME == <<"e", "n", "v", "i", "r", "o", "n", "m", "e", "n", "t", "s">>

\* string literals of processed_json_path
DotJson == <<".", "j", "s", "o", "n">>
ConfigJson == <<"c", "o", "n", "f", "i", "g", ".", "j", "s", "o", "n">>
BusesJson == <<"b", "u", "s", "e", "s", ".", "j", "s", "o", "n">>
AmConfig == <<".", "a", "m", "c", "o", "n", "f", "i", "g">>
AmBus == <<".", "a", "m", "b", "u", "s">>
AmBank == <<".", "a", "m", "b", "a", "n", "k">>
AmCollection == <<".", "a", "m", "c", "o", "l", "l", "e", "c", "t", "i", "o", "n">>
AmEvent == <<".", "a", "m", "e", "v", "e", "n", "t">>
AmAttenuation == <<".", "a", "m", "a", "t", "t", "e", "n", "u", "a", "t", "i", "o", "n">>
AmSwitch == <<".", "a", "m", "s", "w", "i", "t", "c", "h">>
AmSwitchContainer == <<".", "a", "m", "s", "w", "i", "t", "c", "h", "c", "o", "n", "t", "a", "i", "n", "e", "r">>
AmRtpc == <<".", "a", "m", "r", "t", "p", "c">>
AmSound == <<".", "a", "m", "s", "o", "u", "n", "d">>
AmEnv == <<".", "a", "m", "e", "n", "v">>
AmBin == <<".", "a", "m", "b", "i", "n">>

----------------------------------------------------------------------------
(* common.processed_json_path *)

\* Extension with the directory markers tested before the suffix markers
ExtensionDirFirst(path) ==
    IF Contains(path, SOUNDBANKS_DIR_NAME) THEN AmBank
    ELSE IF Contains(path, COLLECTIONS_DIR_NAME) THEN AmCollection
    ELSE IF Contains(path, EVENTS_DIR_NAME) THEN AmEvent
    ELSE IF Contains(path, ATTENUATORS_DIR_NAME) THEN AmAttenuation
    ELSE IF Contains(path, SWITCHES_DIR_NAME) THEN AmSwitch
    ELSE IF Contains(path, SWITCH_CONTAINERS_DIR_NAME) THEN AmSwitchContainer
    ELSE IF Contains(path, RTPC_DIR_NAME) THEN AmRtpc
    ELSE IF Contains(path, SOUNDS_DIR_NAME) THEN AmSound
    ELSE IF Contains(path, ENVIRONMENTS_DIR_NAME) THEN AmEnv
    ELSE IF EndsWith(path, ConfigJson) THEN AmConfig
    ELSE IF EndsWith(path, BusesJson) THEN AmBus
    ELSE AmBin

\* the second argument of the first str.replace: the conditional-expression chain
Extension(path) ==
    IF EndsWith(path, ConfigJson) THEN AmConfig
    ELSE IF EndsWith(path, BusesJson) THEN AmBus
    ELSE IF Contains(path, SOUNDBANKS_DIR_NAME) THEN AmBank
    ELSE IF Contains(path, COLLECTIONS_DIR_NAME) THEN AmCollection
    ELSE IF Contains(path, EVENTS_DIR_NAME) THEN AmEvent
    ELSE IF Contains(path, ATTENUATORS_DIR_NAME) THEN AmAttenuation
    ELSE IF Contains(path, SWITCHES_DIR_NAME) THEN AmSwitch
    ELSE IF Contains(path, SWITCH_CONTAINERS_DIR_NAME) THEN AmSwitchContainer
    ELSE IF Contains(path, RTPC_DIR_NAME) THEN AmRtpc
    ELSE IF Contains(path, SOUNDS_DIR_NAME) THEN AmSound
    ELSE IF Contains(path, ENVIRONMENTS_DIR_NAME) THEN AmEnv
    ELSE AmBin

processed_json_path(path, input_path, output_path) ==
    Replace(Replace(path, DotJson, Extension(path)), input_path, output_path)

----------------------------------------------------------------------------
(* The filesystem as the scripts query it *)

\* os.path.exists(p)
exists(f, p) == p \in DOMAIN f

\* os.path.isfile(p)
isfile(f, p) == p \in DOMAIN f /\ f[p].kind = "file"

\* needs_rebuild with >= in place of >
needs_rebuild_or_equal(f, source, target) ==
    IF ~isfile(f, target) THEN "True"
    ELSE IF ~exists(f, source) THEN "OSError"
    ELSE IF f[source].mtime >= f[target].mtime THEN "True"
    ELSE "False"

\* common.needs_rebuild: "True", "False", or "OSError" when os.path.getmtime raises.
\* `not isfile(target) or ...` short-circuits; getmtime(source) is evaluated first.
needs_rebuild(f, source, target) ==
    IF ~isfile(f, target) THEN "True"
    ELSE IF ~exists(f, source) THEN "OSError"
    ELSE IF f[source].mtime > f[target].mtime THEN "True"
    ELSE "False"

\* common.find_in_paths: the loop from index i on
RECURSIVE find_from(_, _, _, _)
find_from(f, name, paths, i) ==
    IF i > Len(paths) THEN name
    ELSE IF isfile(f, Join(paths[i], name)) THEN Join(paths[i], name)
    ELSE find_from(f, name, paths, i + 1)

\* find_in_paths without the early return: the last directory that holds name wins
RECURSIVE find_last_from(_, _, _, _, _)
find_last_from(f, name, paths, i, found) ==
    IF i > Len(paths) THEN found
    ELSE find_last_from(f, name, paths, i + 1,
                        IF isfile(f, Join(paths[i], name)) THEN Join(paths[i], name) ELSE found)

find_in_paths_last(f, name, paths) == find_last_from(f, name, paths, 1, name)

find_in_paths(f, name, paths) == find_from(f, name, paths, 1)

----------------------------------------------------------------------------
(* glob.glob as get_conversion_data uses it *)

\* a listing order: glob returns the entries in directory order, which is fixed
\* for a given filesystem but not sorted
RECURSIVE SetToSeq(_)
SetToSeq(S) ==
    IF S = {} THEN <<>>
    ELSE LET x == CHOOSE x \in S : TRUE IN <<x>> \o SetToSeq(S \ {x})

\* the part of p after the directory prefix d (d ends with "/")
After(p, d) == SubSeq(p, Len(d) + 1, Len(p))

\* no component of the relative path r is empty or hidden (starts with ".")
Visible(r) ==
    /\ r # <<>>
    /\ r[1] \notin {".", "/"}
    /\ r[Len(r)] # "/"
    /\ \A i \in 1..(Len(r) - 1) : r[i] = "/" => r[i + 1] \notin {".", "/"}

\* GlobTop with a "*" that also matches across "/"
GlobTopAnyDepth(f, dir, suffix) ==
    LET d == Join(dir, <<>>)
    IN SetToSeq({p \in DOMAIN f :
           /\ StartsWith(p, d)
           /\ Visible(After(p, d))
           /\ EndsWith(After(p, d), suffix)})

\* glob.glob(os.path.join(dir, "*" + suffix)): entries directly in dir
GlobTop(f, dir, suffix) ==
    LET d == Join(dir, <<>>)
    IN SetToSeq({p \in DOMAIN f :
           /\ StartsWith(p, d)
           /\ Visible(After(p, d))
           /\ ~Contains(After(p, d), Slash)
           /\ EndsWith(After(p, d), suffix)})

\* glob.glob(os.path.join(dir, sub, "**/*.json"), recursive=True): entries at any
\* depth below dir/sub
GlobRec(f, dir, sub) ==
    LET d == Join(Join(dir, sub), <<>>)
    IN SetToSeq({p \in DOMAIN f :
           /\ StartsWith(p, d)
           /\ Visible(After(p, d))
           /\ EndsWith(After(p, d), DotJson)
           /\ Basename(p) # DotJson})

----------------------------------------------------------------------------
(* common.get_conversion_data *)

ENGINE_CONFIG_SCHEMA == <<"e", "n", "g", "i", "n", "e", "_", "c", "o", "n", "f", "i", "g", "_", "d", "e", "f", "i", "n", "i", "t", "i", "o", "n", ".", "b", "f", "b", "s">>
BUSES_SCHEMA == <<"b", "u", "s", "e", "s", "_", "d", "e", "f", "i", "n", "i", "t", "i", "o", "n", ".", "b", "f", "b", "s">>
SOUND_BANK_SCHEMA == <<"s", "o", "u", "n", "d", "_", "b", "a", "n", "k", "_", "d", "e", "f", "i", "n", "i", "t", "i", "o", "n", ".", "b", "f", "b", "s">>
COLLECTION_SCHEMA == <<"c", "o", "l", "l", "e", "c", "t", "i", "o", "n", "_", "d", "e", "f", "i", "n", "i", "t", "i", "o", "n", ".", "b", "f", "b", "s">>
SOUND_SCHEMA == <<"s", "o", "u", "n", "d", "_", "d", "e", "f", "i", "n", "i", "t", "i", "o", "n", ".", "b", "f", "b", "s">>
EVENT_SCHEMA == <<"e", "v", "e", "n", "t", "_", "d", "e", "f", "i", "n", "i", "t", "i", "o", "n", ".", "b", "f", "b", "s">>
ATTENUATION_SCHEMA == <<"a", "t", "t", "e", "n", "u", "a", "t", "i", "o", "n", "_", "d", "e", "f", "i", "n", "i", "t", "i", "o", "n", ".", "b", "f", "b", "s">>
SWITCH_SCHEMA == <<"s", "w", "i", "t", "c", "h", "_", "d", "e", "f", "i", "n", "i", "t", "i", "o", "n", ".", "b", "f", "b", "s">>
SWITCH_CONTAINER_SCHEMA == <<"s", "w", "i", "t", "c", "h", "_", "c", "o", "n", "t", "a", "i", "n", "e", "r", "_", "d", "e", "f", "i", "n", "i", "t", "i", "o", "n", ".", "b", "f", "b", "s">>
RTPC_SCHEMA == <<"r", "t", "p", "c", "_", "d", "e", "f", "i", "n", "i", "t", "i", "o", "n", ".", "b", "f", "b", "s">>
EFFECT_SCHEMA == <<"e", "f", "f", "e", "c", "t", "_", "d", "e", "f", "i", "n", "i", "t", "i", "o", "n", ".", "b", "f", "b", "s">>

\* the glob suffixes of the two top-level categories
DotConfigJson == <<".", "c", "o", "n", "f", "i", "g", ".", "j", "s", "o", "n">>
DotBusesJson == <<".", "b", "u", "s", "e", "s", ".", "j", "s", "o", "n">>

\* FlatbuffersConversionData(schema, input_files)
FlatbuffersConversionData(schema, input_files) == [schema |-> schema, input_files |-> input_files]

get_conversion_data(f, dirs, project) ==
    << FlatbuffersConversionData(find_in_paths(f, ENGINE_CONFIG_SCHEMA, dirs), GlobTop(f, project, DotConfigJson)),
       FlatbuffersConversionData(find_in_paths(f, BUSES_SCHEMA, dirs), GlobTop(f, project, DotBusesJson)),
       FlatbuffersConversionData(find_in_paths(f, SOUND_BANK_SCHEMA, dirs), GlobRec(f, project, SOUNDBANKS_DIR_NAME)),
       FlatbuffersConversionData(find_in_paths(f, COLLECTION_SCHEMA, dirs), GlobRec(f, project, COLLECTIONS_DIR_NAME)),
       FlatbuffersConversionData(find_in_paths(f, SOUND_SCHEMA, dirs), GlobRec(f, project, SOUNDS_DIR_NAME)),
       FlatbuffersConversionData(find_in_paths(f, EVENT_SCHEMA, dirs), GlobRec(f, project, EVENTS_DIR_NAME)),
       FlatbuffersConversionData(find_in_paths(f, ATTENUATION_SCHEMA, dirs), GlobRec(f, project, ATTENUATORS_DIR_NAME)),
       FlatbuffersConversionData(find_in_paths(f, SWITCH_SCHEMA, dirs), GlobRec(f, project, SWITCHES_DIR_NAME)),
       FlatbuffersConversionData(find_in_paths(f, SWITCH_CONTAINER_SCHEMA, dirs), GlobRec(f, project, SWITCH_CONTAINERS_DIR_NAME)),
       FlatbuffersConversionData(find_in_paths(f, RTPC_SCHEMA, dirs), GlobRec(f, project, RTPC_DIR_NAME)),
       FlatbuffersConversionData(find_in_paths(f, EFFECT_SCHEMA, dirs), GlobRec(f, project, EFFECTS_DIR_NAME)) >>

\* the (schema, json) pairs in the order the nested loops of
\* generate_flatbuffers_binaries and clean_flatbuffers_binaries visit them
RECURSIVE UnitsFrom(_, _)
UnitsFrom(cd, e) ==
    IF e > Len(cd) THEN <<>>
    ELSE [k \in 1..Len(cd[e].input_files) |->
             [schema |-> cd[e].schema, json |-> cd[e].input_files[k], group |-> e]]
         \o UnitsFrom(cd, e + 1)

Units(cd) == UnitsFrom(cd, 1)

----------------------------------------------------------------------------
(* Bounds and the project trees explored *)

\* modification times of the files present at start range over 1..MaxTime
MaxTime == 2

\* a time of writing that is older than the newest input
BeforeNewest == MaxTime - 1

\* the time at which files and directories are written during the run
Now == MaxTime + 1

Proj == <<"/", "p", "r", "o", "j">>
Out == <<"/", "o", "u", "t">>
SDK_SCHEMAS == <<"/", "s", "d", "k", "/", "s", "d", "k", "/", "s", "c", "h", "e", "m", "a", "s">>

\* file names, relative to the project root
NameA == <<"a">> \o DotJson
NameB == <<"b">> \o DotJson
NameC == <<"c">> \o DotJson
NameHidden == <<".", "h">> \o DotJson
RelConfig == <<"a">> \o DotConfigJson
RelBuses == <<"a">> \o DotBusesJson
RelSound == Join(SOUNDS_DIR_NAME, NameA)
RelEvent == Join(EVENTS_DIR_NAME, NameB)
RelCollection == Join(COLLECTIONS_DIR_NAME, NameC)
RelEffect == Join(EFFECTS_DIR_NAME, NameA)
RelEnvironment == Join(ENVIRONMENTS_DIR_NAME, NameA)
RelSoundHidden == Join(SOUNDS_DIR_NAME, NameHidden)
RelNestedConfig == Join(SOUNDBANKS_DIR_NAME, RelConfig)
RelSoundInProj == Join(SOUNDS_DIR_NAME, Join(<<"p", "r", "o", "j">>, NameA))
RelSoundInOut == Join(SOUNDS_DIR_NAME, Join(<<"o", "u", "t">>, NameA))

\* the project trees explored: each is the set of description files of a project
Trees ==
    { {RelSound, RelEvent},
      {RelCollection},
      {RelConfig, RelBuses, RelSound},
      {RelEffect, RelEnvironment},
      {RelNestedConfig, RelSoundHidden},
      {RelSoundInProj, RelSoundInOut},
      {} }

SchemaNames ==
    { ENGINE_CONFIG_SCHEMA, BUSES_SCHEMA, SOUND_BANK_SCHEMA, COLLECTION_SCHEMA,
      SOUND_SCHEMA, EVENT_SCHEMA, ATTENUATION_SCHEMA, SWITCH_SCHEMA,
      SWITCH_CONTAINER_SCHEMA, RTPC_SCHEMA, EFFECT_SCHEMA }

\* the sets of schema files absent from the schema directory that are explored
MissingChoices == { {}, {EVENT_SCHEMA}, SchemaNames }

\* d and its ancestors, as os.makedirs walks them
RECURSIVE DirChain(_)
DirChain(d) == IF d = <<>> \/ d = Dirname(d) THEN {} ELSE {d} \cup DirChain(Dirname(d))

\* os.makedirs(d): d and every missing ancestor become directories
makedirs(f, d) ==
    [p \in DOMAIN f \cup DirChain(d) |->
        IF p \in DOMAIN f THEN f[p] ELSE [kind |-> "dir", mtime |-> Now]]

File(t) == [kind |-> "file", mtime |-> t]

\* the filesystem at start: the tree's files with times im, the outputs of an
\* earlier build with times om (0: no output), the schema files with time st
StartFs(project, build, tree, im, om, missing, st) ==
    LET inputs == [p \in {Join(project, r) : r \in tree} |->
                      File(im[CHOOSE r \in tree : Join(project, r) = p])]
        outOf(r) == processed_json_path(Join(project, r), project, build)
        built == {r \in tree : om[r] > 0}
        outputs == [q \in {outOf(r) : r \in built} |->
                      File(om[CHOOSE r \in built : outOf(r) = q])]
        schemas == [p \in {Join(SDK_SCHEMAS, n) : n \in SchemaNames \ missing} |-> File(st)]
        dirs == UNION {DirChain(Dirname(q)) : q \in DOMAIN outputs}
        base == inputs @@ outputs @@ schemas
    IN [p \in DOMAIN base \cup dirs |->
           IF p \in DOMAIN base THEN base[p] ELSE [kind |-> "dir", mtime |-> 1]]

NoCall == [fn |-> "none"]

Init ==
    /\ project_path = Proj
    /\ build_path = Out
    /\ schema_dirs = <<SDK_SCHEMAS>>
    /\ \E tree \in Trees, missing \in MissingChoices, st \in 1..MaxTime :
         \E im \in [tree -> 1..MaxTime], om \in [tree -> 0..MaxTime] :
            fs = StartFs(project_path, build_path, tree, im, om, missing, st)
    /\ pc = "start"
    /\ conversion_data = <<>>
    /\ ui = 1
    /\ compiled = <<>>
    /\ checked = <<>>
    /\ error = "none"
    /\ ret = -1
    /\ call = NoCall

----------------------------------------------------------------------------
(* build_project.main and common.generate_flatbuffers_binaries *)

\* the modification time a stat of p would give, -1 when p does not exist
MTime(f, p) == IF exists(f, p) THEN f[p].mtime ELSE -1

\* the check of line 224 without its schema operand
unit_needs_rebuild_input_only(f, json, schema, target) == needs_rebuild(f, json, target)

\* the check of line 224 answering True for every unit
unit_needs_rebuild_always(f, json, schema, target) == "True"

\* line 224: needs_rebuild(json, target) or needs_rebuild(schema, target).
\* `or` evaluates its right operand only when the left one is false.
unit_needs_rebuild(f, json, schema, target) ==
    LET left == needs_rebuild(f, json, target)
    IN IF left = "False" THEN needs_rebuild(f, schema, target) ELSE left

\* the external compiler can only succeed when it can read the schema and the input
flatc_can_succeed(f, json, schema) == isfile(f, schema) /\ isfile(f, json)

\* build_project.main up to the first loop iteration: the plan is built once
BuildStart ==
    /\ pc = "start"
    /\ conversion_data' = get_conversion_data(fs, schema_dirs, project_path)
    /\ ui' = 1
    /\ pc' = "building"
    /\ UNCHANGED <<fs, schema_dirs, project_path, build_path, compiled, checked, error, ret, call>>

\* what is observed of a unit when its staleness check returns
Observation(f, u, target, stale) ==
    [json |-> u.json, schema |-> u.schema, target |-> target,
     out_isfile |-> isfile(f, target),
     in_mtime |-> MTime(f, u.json), out_mtime |-> MTime(f, target),
     schema_mtime |-> MTime(f, u.schema), stale |-> stale]

\* one iteration of the inner loop of generate_flatbuffers_binaries
\* (each local of the loop body is bound once, as the assignment does)
BuildUnit ==
    /\ pc = "building"
    /\ ui <= Len(Units(conversion_data))
    /\ \E u \in {Units(conversion_data)[ui]} :
       \E target \in {processed_json_path(u.json, project_path, build_path)} :
       \E target_file_dir \in {Dirname(target)} :
       \E fs1 \in {IF exists(fs, target_file_dir) THEN fs ELSE makedirs(fs, target_file_dir)} :
       \E stale \in {unit_needs_rebuild(fs1, u.json, u.schema, target)} :
       LET cmd == [out_dir |-> target_file_dir, schema |-> u.schema, json |-> u.json]
       IN \/ \* up to date: next unit
             /\ stale = "False"
             /\ fs' = fs1
             /\ checked' = Append(checked, Observation(fs1, u, target, FALSE))
             /\ ui' = ui + 1
             /\ UNCHANGED <<pc, compiled, error, ret>>
          \/ \* os.path.getmtime raised: nothing in main catches OSError
             /\ stale = "OSError"
             /\ fs' = fs1
             /\ pc' = "aborted"
             /\ error' = "OSError"
             /\ UNCHANGED <<ui, compiled, checked, ret>>
          \/ \* the compiler ran and exited with 0: the output is written
             /\ stale = "True"
             /\ flatc_can_succeed(fs1, u.json, u.schema)
             /\ fs' = [p \in DOMAIN fs1 \cup {target} |-> IF p = target THEN File(Now) ELSE fs1[p]]
             /\ checked' = Append(checked, Observation(fs1, u, target, TRUE))
             /\ compiled' = Append(compiled, cmd)
             /\ ui' = ui + 1
             /\ UNCHANGED <<pc, error, ret>>
          \/ \* the compiler could not be started or exited with a non-zero code:
             \* run_subprocess raises BuildError, main reports it and returns 1
             /\ stale = "True"
             /\ fs' = fs1
             /\ checked' = Append(checked, Observation(fs1, u, target, TRUE))
             /\ compiled' = Append(compiled, cmd)
             /\ pc' = "done"
             /\ error' = "BuildError"
             /\ ret' = 1
             /\ UNCHANGED ui
    /\ UNCHANGED <<schema_dirs, project_path, build_path, conversion_data, call>>

\* the loops are exhausted: main prints the success message and returns 0
BuildFinish ==
    /\ pc = "building"
    /\ ui > Len(Units(conversion_data))
    /\ pc' = "done"
    /\ ret' = 0
    /\ UNCHANGED <<fs, schema_dirs, project_path, build_path, conversion_data, ui,
                   compiled, checked, error, call>>

\* a pass that goes on with the next unit after a failed compiler invocation
ResumeAfterFailure ==
    /\ pc = "done"
    /\ error = "BuildError"
    /\ pc' = "building"
    /\ ui' = ui + 1
    /\ UNCHANGED <<fs, schema_dirs, project_path, build_path, conversion_data,
                   compiled, checked, error, ret, call>>

NextKeepGoing == BuildStart \/ BuildUnit \/ BuildFinish \/ ResumeAfterFailure

Next == BuildStart \/ BuildUnit \/ BuildFinish

Spec == Init /\ [][Next]_vars

----------------------------------------------------------------------------
(* Two build passes in a row: specification SpecRebuild *)

\* build_project.main is called again on the project as a completed pass left
\* it; the filesystem of the call and the invocations of the first pass are kept
\* for observation
SecondPass ==
    /\ pc = "done"
    /\ ret = 0
    /\ call = NoCall
    /\ call' = [fn |-> "build_project.main", fs |-> fs, first_compiled |-> compiled]
    /\ pc' = "start"
    /\ ret' = -1
    /\ conversion_data' = <<>>
    /\ ui' = 1
    /\ compiled' = <<>>
    /\ checked' = <<>>
    /\ UNCHANGED <<fs, schema_dirs, project_path, build_path, error>>

NextRebuild == BuildStart \/ BuildUnit \/ BuildFinish \/ SecondPass

SpecRebuild == Init /\ [][NextRebuild]_vars

----------------------------------------------------------------------------
(* Calls of processed_json_path on its own: specification SpecResolve *)

Build == <<"b", "u", "i", "l", "d">>
Other == <<"/", "o", "t", "h", "e", "r">>
Misc == <<"m", "i", "s", "c">>

\* the directory names of the registry, and one directory that is no marker
DirNames ==
    { SOUNDBANKS_DIR_NAME, COLLECTIONS_DIR_NAME, SOUNDS_DIR_NAME, EVENTS_DIR_NAME,
      ATTENUATORS_DIR_NAME, SWITCHES_DIR_NAME, SWITCH_CONTAINERS_DIR_NAME,
      RTPC_DIR_NAME, EFFECTS_DIR_NAME, ENVIRONMENTS_DIR_NAME, Misc }

\* relative paths of description files
ResolveRels ==
    {Join(d, NameA) : d \in DirNames}
    \cup { NameA, BusesJson, ConfigJson, RelConfig, RelBuses,
           Join(SOUNDS_DIR_NAME, RelConfig), Join(SOUNDS_DIR_NAME, BusesJson),
           Join(SOUNDS_DIR_NAME, Join(EVENTS_DIR_NAME, NameA)) }

\* the roots the paths lie under, the declared input roots, the output roots
PathRoots == {Proj, Dot, Other}
InputRoots == {Proj, Dot}
OutputRoots == {Out, Build}

\* path lies under root: it starts with the root followed by a separator
Under(path, root) == StartsWith(path, Join(root, <<>>))

InitIdle ==
    /\ fs = <<>>
    /\ schema_dirs = <<>>
    /\ project_path = <<>>
    /\ build_path = <<>>
    /\ pc = "start"
    /\ conversion_data = <<>>
    /\ ui = 1
    /\ compiled = <<>>
    /\ checked = <<>>
    /\ error = "none"
    /\ ret = -1
    /\ call = NoCall

\* one call of processed_json_path: the function has no raise statement and
\* str.endswith, `in` and str.replace raise nothing on strings
ResolveCall ==
    /\ pc = "start"
    /\ \E root \in PathRoots, rel \in ResolveRels, input \in InputRoots, output \in OutputRoots :
          call' = [fn |-> "processed_json_path",
                   path |-> Join(root, rel), input_path |-> input, output_path |-> output,
                   ext |-> Extension(Join(root, rel)),
                   result |-> processed_json_path(Join(root, rel), input, output),
                   raised |-> FALSE]
    /\ pc' = "returned"
    /\ UNCHANGED <<fs, schema_dirs, project_path, build_path, conversion_data, ui,
                   compiled, checked, error, ret>>

SpecResolve == InitIdle /\ [][ResolveCall]_vars

----------------------------------------------------------------------------
(* Calls of needs_rebuild and find_in_paths on their own: specification SpecStat *)

\* the longest list of directories handed to find_in_paths
MaxDirs == 2

Dir1 == <<"/", "d", "1">>
Dir2 == <<"/", "d", "2">>
Dir3 == <<"/", "d", "3">>
NameN == <<"n">>

StatDirs == {Dir1, Dir2, Dir3}

\* the paths that may exist: n in the first two directories and in the working directory
StatPaths == {Join(Dir1, NameN), Join(Dir2, NameN), NameN}

\* what may be at a path: nothing, a directory, or a file of some modification time
StatEntries == {[kind |-> "none", mtime |-> 0], [kind |-> "dir", mtime |-> 1]}
               \cup {File(t) : t \in 1..MaxTime}

\* the lists of distinct directories of length at most MaxDirs
DirLists ==
    {l \in UNION {[1..n -> StatDirs] : n \in 0..MaxDirs} :
        \A i, j \in 1..Len(l) : i # j => l[i] # l[j]}

InitStat ==
    /\ \E e \in [StatPaths -> StatEntries] :
          fs = [p \in {q \in StatPaths : e[q].kind # "none"} |-> e[p]]
    /\ schema_dirs = <<>>
    /\ project_path = <<>>
    /\ build_path = <<>>
    /\ pc = "start"
    /\ conversion_data = <<>>
    /\ ui = 1
    /\ compiled = <<>>
    /\ checked = <<>>
    /\ error = "none"
    /\ ret = -1
    /\ call = NoCall

NeedsRebuildCall ==
    /\ pc = "start"
    /\ \E source \in StatPaths, target \in StatPaths :
          call' = [fn |-> "needs_rebuild", source |-> source, target |-> target,
                   result |-> needs_rebuild(fs, source, target)]
    /\ pc' = "returned"
    /\ UNCHANGED <<fs, schema_dirs, project_path, build_path, conversion_data, ui,
                   compiled, checked, error, ret>>

FindInPathsCall ==
    /\ pc = "start"
    /\ \E paths \in DirLists :
          call' = [fn |-> "find_in_paths", name |-> NameN, paths |-> paths,
                   result |-> find_in_paths(fs, NameN, paths)]
    /\ pc' = "returned"
    /\ UNCHANGED <<fs, schema_dirs, project_path, build_path, conversion_data, ui,
                   compiled, checked, error, ret>>

NextStat == NeedsRebuildCall \/ FindInPathsCall

SpecStat == InitStat /\ [][NextStat]_vars

----------------------------------------------------------------------------
(* clean_project.main and common.clean_flatbuffers_binaries: specification SpecClean *)

\* os.remove(p)
remove(f, p) == [q \in DOMAIN f \ {p} |-> f[q]]

\* the loop body of clean_flatbuffers_binaries with a staleness filter: only an
\* output that a build would redo is removed
clean_one_if_stale(f, u, input_path, output_path) ==
    LET path == processed_json_path(u.json, input_path, output_path)
    IN IF isfile(f, path) /\ unit_needs_rebuild(f, u.json, u.schema, path) # "False"
       THEN remove(f, path) ELSE f

\* the loop body of clean_flatbuffers_binaries: the filesystem it leaves
clean_one(f, u, input_path, output_path) ==
    LET path == processed_json_path(u.json, input_path, output_path)
    IN IF isfile(f, path) THEN remove(f, path) ELSE f

\* clean_project.main up to the first loop iteration: the plan is built once;
\* the filesystem main was called on is kept for observation
CleanStart ==
    /\ pc = "start"
    /\ conversion_data' = get_conversion_data(fs, schema_dirs, project_path)
    /\ ui' = 1
    /\ pc' = "cleaning"
    /\ call' = [fn |-> "clean_project.main", fs |-> fs]
    /\ UNCHANGED <<fs, schema_dirs, project_path, build_path, compiled, checked, error, ret>>

\* one iteration of the inner loop of clean_flatbuffers_binaries
CleanUnit ==
    /\ pc = "cleaning"
    /\ ui <= Len(Units(conversion_data))
    /\ fs' = clean_one(fs, Units(conversion_data)[ui], project_path, build_path)
    /\ ui' = ui + 1
    /\ UNCHANGED <<schema_dirs, project_path, build_path, pc, conversion_data,
                   compiled, checked, error, ret, call>>

\* the loops are exhausted: main prints the success message and returns 0
CleanFinish ==
    /\ pc = "cleaning"
    /\ ui > Len(Units(conversion_data))
    /\ pc' = "done"
    /\ ret' = 0
    /\ UNCHANGED <<fs, schema_dirs, project_path, build_path, conversion_data, ui,
                   compiled, checked, error, call>>

NextClean == CleanStart \/ CleanUnit \/ CleanFinish

SpecClean == Init /\ [][NextClean]_vars

----------------------------------------------------------------------------
(* build_assets.py, the fixed-sample-tree variant: specification SpecAssets *)

PROJECT_ROOT == <<"/", "s", "d", "k">>
ASSETS_PATH == Join(PROJECT_ROOT, <<"a", "s", "s", "e", "t", "s">>)
RAW_ASSETS_PATH == Join(Join(PROJECT_ROOT, <<"s", "a", "m", "p", "l", "e", "s">>), <<"r", "a", "w", "a", "s", "s", "e", "t", "s">>)
RAW_SOUND_PATH == Join(RAW_ASSETS_PATH, <<"s", "o", "u", "n", "d", "s">>)
RAW_COLLECTION_PATH == Join(RAW_ASSETS_PATH, <<"c", "o", "l", "l", "e", "c", "t", "i", "o", "n", "s">>)
RAW_SOUND_BANK_PATH == Join(RAW_ASSETS_PATH, <<"s", "o", "u", "n", "d", "b", "a", "n", "k", "s">>)
RAW_EVENT_PATH == Join(RAW_ASSETS_PATH, <<"e", "v", "e", "n", "t", "s">>)
RAW_ATTENUATION_PATH == Join(RAW_ASSETS_PATH, <<"a", "t", "t", "e", "n", "u", "a", "t", "o", "r", "s">>)
RAW_SWITCHES_PATH == Join(RAW_ASSETS_PATH, <<"s", "w", "i", "t", "c", "h", "e", "s">>)
RAW_SWITCH_CONTAINERS_PATH == Join(RAW_ASSETS_PATH, <<"s", "w", "i", "t", "c", "h", "_", "c", "o", "n", "t", "a", "i", "n", "e", "r", "s">>)
RAW_RTPC_CONTAINERS_PATH == Join(RAW_ASSETS_PATH, <<"r", "t", "p", "c">>)
RAW_EFFECT_CONTAINERS_PATH == Join(RAW_ASSETS_PATH, <<"e", "f", "f", "e", "c", "t", "s">>)
SCHEMA_PATHS == <<Join(PROJECT_ROOT, <<"s", "c", "h", "e", "m", "a", "s">>)>>

\* string literals of build_assets.py
DotBin == <<".", "b", "i", "n">>
AudioConfigJson == <<"a", "u", "d", "i", "o", "_", "c", "o", "n", "f", "i", "g", ".", "j", "s", "o", "n">>
EngineConfigFbs == <<"e", "n", "g", "i", "n", "e", "_", "c", "o", "n", "f", "i", "g", "_", "d", "e", "f", "i", "n", "i", "t", "i", "o", "n", ".", "f", "b", "s">>
BusesFbs == <<"b", "u", "s", "e", "s", "_", "d", "e", "f", "i", "n", "i", "t", "i", "o", "n", ".", "f", "b", "s">>
SoundBankFbs == <<"s", "o", "u", "n", "d", "_", "b", "a", "n", "k", "_", "d", "e", "f", "i", "n", "i", "t", "i", "o", "n", ".", "f", "b", "s">>
CollectionFbs == <<"c", "o", "l", "l", "e", "c", "t", "i", "o", "n", "_", "d", "e", "f", "i", "n", "i", "t", "i", "o", "n", ".", "f", "b", "s">>
SoundFbs == <<"s", "o", "u", "n", "d", "_", "d", "e", "f", "i", "n", "i", "t", "i", "o", "n", ".", "f", "b", "s">>
EventFbs == <<"e", "v", "e", "n", "t", "_", "d", "e", "f", "i", "n", "i", "t", "i", "o", "n", ".", "f", "b", "s">>
AttenuationFbs == <<"a", "t", "t", "e", "n", "u", "a", "t", "i", "o", "n", "_", "d", "e", "f", "i", "n", "i", "t", "i", "o", "n", ".", "f", "b", "s">>
SwitchFbs == <<"s", "w", "i", "t", "c", "h", "_", "d", "e", "f", "i", "n", "i", "t", "i", "o", "n", ".", "f", "b", "s">>
SwitchContainerFbs == <<"s", "w", "i", "t", "c", "h", "_", "c", "o", "n", "t", "a", "i", "n", "e", "r", "_", "d", "e", "f", "i", "n", "i", "t", "i", "o", "n", ".", "f", "b", "s">>
RtpcFbs == <<"r", "t", "p", "c", "_", "d", "e", "f", "i", "n", "i", "t", "i", "o", "n", ".", "f", "b", "s">>
EffectFbs == <<"e", "f", "f", "e", "c", "t", "_", "d", "e", "f", "i", "n", "i", "t", "i", "o", "n", ".", "f", "b", "s">>

\* glob.glob(os.path.join(dir, "**/*.json"), recursive=True)
GlobJson(f, dir) == GlobRec(f, dir, <<>>)

\* the module-level list, evaluated on the filesystem f found when the module is
\* loaded; the first two groups list their file whether or not it exists
FLATBUFFERS_CONVERSION_DATA(f) ==
    << FlatbuffersConversionData(find_in_paths(f, EngineConfigFbs, SCHEMA_PATHS), <<Join(RAW_ASSETS_PATH, AudioConfigJson)>>),
       FlatbuffersConversionData(find_in_paths(f, BusesFbs, SCHEMA_PATHS), <<Join(RAW_ASSETS_PATH, BusesJson)>>),
       FlatbuffersConversionData(find_in_paths(f, SoundBankFbs, SCHEMA_PATHS), GlobJson(f, RAW_SOUND_BANK_PATH)),
       FlatbuffersConversionData(find_in_paths(f, CollectionFbs, SCHEMA_PATHS), GlobJson(f, RAW_COLLECTION_PATH)),
       FlatbuffersConversionData(find_in_paths(f, SoundFbs, SCHEMA_PATHS), GlobJson(f, RAW_SOUND_PATH)),
       FlatbuffersConversionData(find_in_paths(f, EventFbs, SCHEMA_PATHS), GlobJson(f, RAW_EVENT_PATH)),
       FlatbuffersConversionData(find_in_paths(f, AttenuationFbs, SCHEMA_PATHS), GlobJson(f, RAW_ATTENUATION_PATH)),
       FlatbuffersConversionData(find_in_paths(f, SwitchFbs, SCHEMA_PATHS), GlobJson(f, RAW_SWITCHES_PATH)),
       FlatbuffersConversionData(find_in_paths(f, SwitchContainerFbs, SCHEMA_PATHS), GlobJson(f, RAW_SWITCH_CONTAINERS_PATH)),
       FlatbuffersConversionData(find_in_paths(f, RtpcFbs, SCHEMA_PATHS), GlobJson(f, RAW_RTPC_CONTAINERS_PATH)),
       FlatbuffersConversionData(find_in_paths(f, EffectFbs, SCHEMA_PATHS), GlobJson(f, RAW_EFFECT_CONTAINERS_PATH)) >>

\* build_assets.processed_json_path(path, target_directory)
assets_processed_json_path(path, target_directory) ==
    Replace(Replace(path, RAW_ASSETS_PATH, target_directory), DotJson, DotBin)

\* build_assets.copy_assets: every file below ASSETS_PATH that is missing from
\* target_directory or newer than its copy there is copied with its times
copy_assets(f, target_directory) ==
    IF ASSETS_PATH = target_directory THEN f
    ELSE LET src == Join(ASSETS_PATH, <<>>)
             files == {p \in DOMAIN f : f[p].kind = "file" /\ StartsWith(p, src)}
             dst(p) == Join(target_directory, After(p, src))
             copied == {p \in files : ~exists(f, dst(p)) \/ f[dst(p)].mtime < f[p].mtime}
             made == UNION {DirChain(Dirname(dst(p))) : p \in files} \ DOMAIN f
         IN [q \in DOMAIN f \cup made \cup {dst(p) : p \in copied} |->
                IF \E p \in copied : dst(p) = q
                THEN File(f[CHOOSE p \in copied : dst(p) = q].mtime)
                ELSE IF q \in DOMAIN f THEN f[q]
                ELSE [kind |-> "dir", mtime |-> Now]]

\* the sample tree: description files below RAW_ASSETS_PATH, and one asset that
\* is not a flatbuffer binary below ASSETS_PATH
RawConfig == Join(RAW_ASSETS_PATH, AudioConfigJson)
RawBuses == Join(RAW_ASSETS_PATH, BusesJson)
RawSound == Join(RAW_SOUND_PATH, NameA)
PlainAsset == Join(ASSETS_PATH, <<"w">>)
AssetTrees == { {RawConfig, RawBuses}, {RawConfig, RawSound} }

\* the values of --output: the default and another directory
OtherOutput == <<"/", "o">>
AssetsOutputs == {ASSETS_PATH, OtherOutput}

\* the positional arguments after the script name
ArgLists == { <<>>, <<"clean">>, <<"x", "clean">> }

AssetSchemas ==
    { EngineConfigFbs, BusesFbs, SoundBankFbs, CollectionFbs, SoundFbs, EventFbs,
      AttenuationFbs, SwitchFbs, SwitchContainerFbs, RtpcFbs, EffectFbs }

\* the filesystem at start: the tree's files with times im, the outputs of an
\* earlier build into output with times om (0: no output; an output may have
\* outlived its input), the schema files
AssetsStartFs(output, tree, im, om) ==
    LET inputs == [p \in tree |-> File(im[p])]
        built == {p \in DOMAIN om : om[p] > 0}
        outputs == [q \in {assets_processed_json_path(p, output) : p \in built} |->
                      File(om[CHOOSE p \in built : assets_processed_json_path(p, output) = q])]
        schemas == [p \in {Join(SCHEMA_PATHS[1], n) : n \in AssetSchemas} |-> File(1)]
        assets == [p \in {PlainAsset} |-> File(1)]
        base == inputs @@ outputs @@ schemas @@ assets
        dirs == UNION {DirChain(Dirname(q)) : q \in DOMAIN outputs}
    IN [p \in DOMAIN base \cup dirs |->
           IF p \in DOMAIN base THEN base[p] ELSE [kind |-> "dir", mtime |-> 1]]

InitAssets ==
    /\ project_path = RAW_ASSETS_PATH
    /\ build_path \in AssetsOutputs
    /\ schema_dirs = SCHEMA_PATHS
    /\ \E tree \in AssetTrees :
         \E im \in [tree -> 1..MaxTime], om \in [tree \cup {RawBuses} -> 0..MaxTime] :
            fs = AssetsStartFs(build_path, tree, im, om)
    /\ conversion_data = FLATBUFFERS_CONVERSION_DATA(fs)
    /\ \E args \in ArgLists : call = [fn |-> "build_assets.main", args |-> args]
    /\ pc = "start"
    /\ ui = 1
    /\ compiled = <<>>
    /\ checked = <<>>
    /\ error = "none"
    /\ ret = -1

\* main up to the first loop iteration of generate_flatbuffer_binaries, or to
\* its end for the target 'clean': clean() calls clean_flatbuffer_binaries
\* without its required argument, which raises TypeError before the body runs;
\* main catches OSError only
AssetsMain ==
    /\ pc = "start"
    /\ \E target \in {IF Len(call.args) >= 2 THEN call.args[2] ELSE "all"} :
          \/ /\ target # "clean"
             /\ fs' = copy_assets(fs, build_path)
             /\ pc' = "building"
             /\ UNCHANGED error
          \/ /\ target = "clean"
             /\ pc' = "aborted"
             /\ error' = "TypeError"
             /\ UNCHANGED fs
    /\ UNCHANGED <<schema_dirs, project_path, build_path, conversion_data, ui,
                   compiled, checked, ret, call>>

\* one iteration of the inner loop of generate_flatbuffer_binaries
AssetsBuildUnit ==
    /\ pc = "building"
    /\ ui <= Len(Units(conversion_data))
    /\ \E u \in {Units(conversion_data)[ui]} :
       \E target \in {assets_processed_json_path(u.json, build_path)} :
       \E target_file_dir \in {Dirname(target)} :
       \E fs1 \in {IF exists(fs, target_file_dir) THEN fs ELSE makedirs(fs, target_file_dir)} :
       \E stale \in {unit_needs_rebuild(fs1, u.json, u.schema, target)} :
       LET cmd == [out_dir |-> target_file_dir, schema |-> u.schema, json |-> u.json]
       IN \/ /\ stale = "False"
             /\ fs' = fs1
             /\ ui' = ui + 1
             /\ UNCHANGED <<pc, compiled, error, ret>>
          \/ /\ stale = "OSError"
             /\ fs' = fs1
             /\ pc' = "aborted"
             /\ error' = "OSError"
             /\ UNCHANGED <<ui, compiled, ret>>
          \/ /\ stale = "True"
             /\ flatc_can_succeed(fs1, u.json, u.schema)
             /\ fs' = [p \in DOMAIN fs1 \cup {target} |-> IF p = target THEN File(Now) ELSE fs1[p]]
             /\ compiled' = Append(compiled, cmd)
             /\ ui' = ui + 1
             /\ UNCHANGED <<pc, error, ret>>
          \/ /\ stale = "True"
             /\ fs' = fs1
             /\ compiled' = Append(compiled, cmd)
             /\ pc' = "done"
             /\ error' = "BuildError"
             /\ ret' = 1
             /\ UNCHANGED ui
    /\ UNCHANGED <<schema_dirs, project_path, build_path, conversion_data, checked, call>>

\* the loops are exhausted: main returns 0
AssetsBuildFinish ==
    /\ pc = "building"
    /\ ui > Len(Units(conversion_data))
    /\ pc' = "done"
    /\ ret' = 0
    /\ UNCHANGED <<fs, schema_dirs, project_path, build_path, conversion_data, ui,
                   compiled, checked, error, call>>

NextAssets == AssetsMain \/ AssetsBuildUnit \/ AssetsBuildFinish

SpecAssets == InitAssets /\ [][NextAssets]_vars

----------------------------------------------------------------------------
(* Properties: the staleness oracle and the build pass *)

IsNeedsRebuildCall == call.fn = "needs_rebuild"

\* C1: needs_rebuild(source, target) returns true exactly when target is not a
\* file or mtime(source) > mtime(target): true whenever the target is missing
\* (even with the source missing too), false whenever the target is a file at
\* least as new as the source.
C1_NeedsRebuildContract ==
    IsNeedsRebuildCall =>
        /\ (call.result = "True") <=>
              \/ ~(call.target \in DOMAIN fs /\ fs[call.target].kind = "file")
              \/ /\ call.source \in DOMAIN fs
                 /\ fs[call.source].mtime > fs[call.target].mtime
        /\ (call.target \notin DOMAIN fs) => call.result = "True"
        /\ ( /\ call.target \in DOMAIN fs /\ fs[call.target].kind = "file"
             /\ call.source \in DOMAIN fs
             /\ fs[call.target].mtime >= fs[call.source].mtime ) => call.result = "False"

\* a call with neither source nor target present answered True
C1_Witness ==
    /\ IsNeedsRebuildCall
    /\ call.target \notin DOMAIN fs
    /\ call.source \notin DOMAIN fs
    /\ call.result = "True"

\* the unit of observation r was handed to the compiler
Compiled(r) == \E k \in 1..Len(compiled) : compiled[k].json = r.json /\ compiled[k].schema = r.schema

\* staleness as the glossary states it, on the modification times observed when
\* the unit was checked: the output is missing, or older than the input or the schema
ObservedStale(r) ==
    \/ ~r.out_isfile
    \/ r.in_mtime > r.out_mtime
    \/ r.schema_mtime > r.out_mtime

\* the output existed and was at least as new as the input, the schema was newer
SchemaOnlyNewer(r) ==
    /\ r.out_isfile
    /\ r.out_mtime >= r.in_mtime
    /\ r.schema_mtime > r.out_mtime

\* C2: a unit is recompiled when its input or its schema is newer than its
\* output (or the output is missing); in particular a unit whose output is up to
\* date with its input but older than its schema is handed to the compiler.
C2_SchemaInvalidation ==
    \A i \in 1..Len(checked) :
        /\ SchemaOnlyNewer(checked[i]) => Compiled(checked[i])
        /\ Compiled(checked[i]) <=> ObservedStale(checked[i])

C2_Witness ==
    \E i \in 1..Len(checked) : SchemaOnlyNewer(checked[i]) /\ Compiled(checked[i])

JsonsOf(seq) == [i \in 1..Len(seq) |-> seq[i].json]

\* the output existed and was at least as new as both the input and the schema
UpToDate(r) ==
    /\ r.out_isfile
    /\ r.schema_mtime >= 0
    /\ r.out_mtime >= r.in_mtime
    /\ r.out_mtime >= r.schema_mtime

PassCompleted == pc = "done" /\ error = "none"

\* the plan of the scenario: a sound description, then an event description
ScenarioPlan == <<Join(Proj, RelSound), Join(Proj, RelEvent)>>

CategoryOrder ==
    << [schema |-> ENGINE_CONFIG_SCHEMA, top |-> TRUE, marker |-> DotConfigJson],
       [schema |-> BUSES_SCHEMA, top |-> TRUE, marker |-> DotBusesJson],
       [schema |-> SOUND_BANK_SCHEMA, top |-> FALSE, marker |-> SOUNDBANKS_DIR_NAME],
       [schema |-> COLLECTION_SCHEMA, top |-> FALSE, marker |-> COLLECTIONS_DIR_NAME],
       [schema |-> SOUND_SCHEMA, top |-> FALSE, marker |-> SOUNDS_DIR_NAME],
       [schema |-> EVENT_SCHEMA, top |-> FALSE, marker |-> EVENTS_DIR_NAME],
       [schema |-> ATTENUATION_SCHEMA, top |-> FALSE, marker |-> ATTENUATORS_DIR_NAME],
       [schema |-> SWITCH_SCHEMA, top |-> FALSE, marker |-> SWITCHES_DIR_NAME],
       [schema |-> SWITCH_CONTAINER_SCHEMA, top |-> FALSE, marker |-> SWITCH_CONTAINERS_DIR_NAME],
       [schema |-> RTPC_SCHEMA, top |-> FALSE, marker |-> RTPC_DIR_NAME],
       [schema |-> EFFECT_SCHEMA, top |-> FALSE, marker |-> EFFECTS_DIR_NAME] >>

\* p is a description file of category c of the project
InCategory(p, c) ==
    IF c.top THEN Dirname(p) = project_path /\ EndsWith(p, c.marker)
    ELSE StartsWith(p, Join(Join(project_path, c.marker), <<>>))

Planned == pc # "start"

\* C4: the plan holds each input path at most once across all its groups, and
\* its groups are the categories in the fixed order.
C4_PlanNoDuplicatesInOrder ==
    Planned =>
        /\ Len(conversion_data) = Len(CategoryOrder)
        /\ \A k \in 1..Len(conversion_data) :
              /\ Basename(conversion_data[k].schema) = CategoryOrder[k].schema
              /\ \A n \in 1..Len(conversion_data[k].input_files) :
                    InCategory(conversion_data[k].input_files[n], CategoryOrder[k])
        /\ \A i, j \in 1..Len(Units(conversion_data)) :
              i # j => Units(conversion_data)[i].json # Units(conversion_data)[j].json

\* a plan with files in three different groups
C4_Witness ==
    /\ Planned
    /\ Cardinality({Units(conversion_data)[i].group : i \in 1..Len(Units(conversion_data))}) >= 3

----------------------------------------------------------------------------
(* Properties: the path resolver *)

IsResolveCall == call.fn = "processed_json_path"

\* the registry's markers as the claims list them, each with its category's
\* extension; the effects category has a marker and no extension in common.py
SuffixMarkers == {ConfigJson, BusesJson}

DirMarkers ==
    { SOUNDBANKS_DIR_NAME, COLLECTIONS_DIR_NAME, SOUNDS_DIR_NAME, EVENTS_DIR_NAME,
      ATTENUATORS_DIR_NAME, SWITCHES_DIR_NAME, SWITCH_CONTAINERS_DIR_NAME,
      RTPC_DIR_NAME, EFFECTS_DIR_NAME, ENVIRONMENTS_DIR_NAME }

MarkersMatched(path) ==
    {m \in SuffixMarkers : EndsWith(path, m)} \cup {m \in DirMarkers : Contains(path, m)}

CategoryExtension ==
    [m \in (SuffixMarkers \cup DirMarkers) \ {EFFECTS_DIR_NAME} |->
        CASE m = ConfigJson -> AmConfig
          [] m = BusesJson -> AmBus
          [] m = SOUNDBANKS_DIR_NAME -> AmBank
          [] m = COLLECTIONS_DIR_NAME -> AmCollection
          [] m = SOUNDS_DIR_NAME -> AmSound
          [] m = EVENTS_DIR_NAME -> AmEvent
          [] m = ATTENUATORS_DIR_NAME -> AmAttenuation
          [] m = SWITCHES_DIR_NAME -> AmSwitch
          [] m = SWITCH_CONTAINERS_DIR_NAME -> AmSwitchContainer
          [] m = RTPC_DIR_NAME -> AmRtpc
          [] m = ENVIRONMENTS_DIR_NAME -> AmEnv]

\* ext is the own extension of the category of marker m: the one the table
\* gives, and for the effects category one that is neither the generic fallback
\* nor another category's
OwnExtension(m, ext) ==
    IF m \in DOMAIN CategoryExtension THEN ext = CategoryExtension[m]
    ELSE ext # AmBin /\ \A o \in DOMAIN CategoryExtension : ext # CategoryExtension[o]

\* C5: a path under the project root that matches exactly one category marker
\* gets that category's own extension; a path that matches no marker gets the
\* generic fallback extension.
C5_Classification ==
    (IsResolveCall /\ Under(call.path, call.input_path)) =>
        /\ MarkersMatched(call.path) = {} => call.ext = AmBin
        /\ \A m \in MarkersMatched(call.path) :
              MarkersMatched(call.path) = {m} => OwnExtension(m, call.ext)

\* C6: a path that ends with config.json gets the engine-config extension and
\* one that ends with buses.json the bus extension, whatever directory marker
\* the path also contains; /proj/buses.json with roots /proj and /out resolves
\* to /out/buses.ambus.
C6_SuffixBeforeDirectory ==
    IsResolveCall =>
        /\ EndsWith(call.path, ConfigJson) => call.ext = AmConfig
        /\ EndsWith(call.path, BusesJson) => call.ext = AmBus
        /\ (call.path = Join(Proj, BusesJson) /\ call.input_path = Proj /\ call.output_path = Out)
              => call.result = Join(Out, <<"b", "u", "s", "e", "s">> \o AmBus)

\* a config file inside the sounds directory, given the engine-config extension
C6_Witness ==
    /\ IsResolveCall
    /\ call.path = Join(Proj, Join(SOUNDS_DIR_NAME, RelConfig))
    /\ Contains(call.path, SOUNDS_DIR_NAME)
    /\ call.ext = AmConfig

\* C7: for a .json path under input_root the returned path begins with
\* output_root and ends with the extension of the path's category.
C7_BeginsWithRootEndsWithExtension ==
    (IsResolveCall /\ EndsWith(call.path, DotJson) /\ Under(call.path, call.input_path)) =>
        /\ StartsWith(call.result, call.output_path)
        /\ EndsWith(call.result, call.ext)

\* C8: resolving a path that does not lie under the declared input root raises
\* an error.
C8_ContainmentViolationRaises ==
    (IsResolveCall /\ ~Under(call.path, call.input_path)) => call.raised

----------------------------------------------------------------------------
(* Properties: the schema lookup *)

IsFindCall == call.fn = "find_in_paths"

\* the positions of the directories of the list that hold a file called name
Holding == {i \in 1..Len(call.paths) : isfile(fs, Join(call.paths[i], call.name))}

\* C9: find_in_paths returns name joined to the first directory of the list that
\* holds a file called name, and the bare name when no directory holds one.
C9_FirstDirectoryOrBareName ==
    IsFindCall =>
        /\ Holding = {} => call.result = call.name
        /\ \A i \in Holding :
              (\A k \in Holding : i <= k) => call.result = Join(call.paths[i], call.name)

\* two directories hold the file and the first of the list is returned
C9_Witness ==
    /\ IsFindCall
    /\ Cardinality(Holding) = 2
    /\ call.result = Join(call.paths[1], call.name)

\* C10: a schema found in no search directory makes nothing fail before the
\* compiler runs: the only error of a build pass is a failed compiler invocation.
C10_MissingSchemaSurfacesAtCompiler ==
    error \in {"none", "BuildError"}

----------------------------------------------------------------------------
(* Properties: the clean pass *)

CleanCompleted == call.fn = "clean_project.main" /\ pc = "done"

PlanInputs == {Units(conversion_data)[i].json : i \in 1..Len(Units(conversion_data))}

PlanSchemas == {Units(conversion_data)[i].schema : i \in 1..Len(Units(conversion_data))}

\* the resolved output paths of the units of the plan
PlanOutputs == {processed_json_path(j, project_path, build_path) : j \in PlanInputs}

\* C11: when clean completes, no resolved output path of a unit of the plan is a
\* file, stale or not; the paths clean removed are exactly the resolved output
\* paths that were files, and every other file, the inputs and the schemas among
\* them, is as it was.
C11_CleanRemovesExactlyTheOutputs ==
    CleanCompleted =>
        /\ ret = 0
        /\ \A q \in PlanOutputs : ~isfile(fs, q)
        /\ DOMAIN call.fs \ DOMAIN fs = {q \in PlanOutputs : isfile(call.fs, q)}
        /\ DOMAIN fs \subseteq DOMAIN call.fs
        /\ \A p \in DOMAIN fs : fs[p] = call.fs[p]
        /\ \A p \in PlanInputs \cup PlanSchemas :
              p \in DOMAIN call.fs => (p \in DOMAIN fs /\ fs[p] = call.fs[p])

\* clean completed and removed an output that was at least as new as its input
\* and its schema
C11_Witness ==
    /\ CleanCompleted
    /\ \E i \in 1..Len(Units(conversion_data)) :
          \E u \in {Units(conversion_data)[i]} :
          \E q \in {processed_json_path(u.json, project_path, build_path)} :
             /\ isfile(call.fs, q)
             /\ isfile(call.fs, u.schema)
             /\ call.fs[q].mtime >= call.fs[u.json].mtime
             /\ call.fs[q].mtime >= call.fs[u.schema].mtime
             /\ ~exists(fs, q)

----------------------------------------------------------------------------
(* Properties: failures of a build pass *)

\* the resolved output path of the k-th compiler invocation
CompiledTarget(k) == processed_json_path(compiled[k].json, project_path, build_path)

\* C12: a failed compiler invocation ends the pass with BuildError: main returns
\* 1, the failing unit is the last one checked and the last one handed to the
\* compiler, no later unit of the plan is checked or compiled, and the outputs
\* written for the earlier units are still there.
C12_FirstFailureAbortsThePass ==
    error = "BuildError" =>
        /\ pc = "done"
        /\ ret = 1
        /\ ui <= Len(Units(conversion_data))
        /\ Len(checked) = ui
        /\ checked[ui].json = Units(conversion_data)[ui].json
        /\ compiled # <<>>
        /\ compiled[Len(compiled)].json = Units(conversion_data)[ui].json
        /\ MTime(fs, checked[ui].target) = checked[ui].out_mtime
        /\ \A k \in 1..(Len(compiled) - 1) :
              /\ isfile(fs, CompiledTarget(k))
              /\ fs[CompiledTarget(k)].mtime = Now

\* the second of three stale units failed: the first one's output is kept and
\* the third one was never checked
C12_Witness ==
    /\ error = "BuildError"
    /\ ret = 1
    /\ Len(Units(conversion_data)) = 3
    /\ ui = 2
    /\ Len(compiled) = 2
    /\ isfile(fs, CompiledTarget(1))
    /\ ~exists(fs, processed_json_path(Units(conversion_data)[3].json, project_path, build_path))

----------------------------------------------------------------------------
(* Properties: the plan and the registry *)

\* the files of element k of the plan
InputFilesOf(k) == {conversion_data[k].input_files[n] : n \in 1..Len(conversion_data[k].input_files)}

\* p is a description file that the marker of category c locates under the
\* project root: a visible *.json entry, directly in the root for a suffix
\* marker, at any depth below the category's directory for a directory marker
Located(p, c) ==
    /\ p \in DOMAIN fs
    /\ InCategory(p, c)
    /\ EndsWith(p, DotJson)
    /\ Basename(p) # DotJson
    /\ Visible(After(p, Join(IF c.top THEN project_path ELSE Join(project_path, c.marker), <<>>)))

\* the environments category of the registry, which has a marker and an
\* extension in common.py
EnvironmentsCategory == [top |-> FALSE, marker |-> ENVIRONMENTS_DIR_NAME]

\* every located file of the categories that have a group in the plan is a unit
\* of its category's group
PlannedCategoriesCovered ==
    \A k \in 1..Len(CategoryOrder) :
        \A p \in DOMAIN fs : Located(p, CategoryOrder[k]) => p \in InputFilesOf(k)

\* C13: every description file that a category's marker locates under the
\* project root is a unit of the plan, for each category of the registry, the
\* environments category included.
C13_RegistryCoverage ==
    Planned =>
        /\ PlannedCategoriesCovered
        /\ \A p \in DOMAIN fs : Located(p, EnvironmentsCategory) => p \in PlanInputs

\* the suffix or directory marker of each group of the plan, in plan order
GroupMarker ==
    << ConfigJson, BusesJson, SOUNDBANKS_DIR_NAME, COLLECTIONS_DIR_NAME, SOUNDS_DIR_NAME,
       EVENTS_DIR_NAME, ATTENUATORS_DIR_NAME, SWITCHES_DIR_NAME, SWITCH_CONTAINERS_DIR_NAME,
       RTPC_DIR_NAME, EFFECTS_DIR_NAME >>

\* the units of group k get the own extension of the category of group k
GroupConsistent(k) ==
    \A p \in InputFilesOf(k) : OwnExtension(GroupMarker[k], Extension(p))

\* C15: the extension that processed_json_path gives the input of a unit is the
\* own extension of the category whose schema the unit is compiled with, for
\* every unit of the plan.
C15_SchemaExtensionConsistency ==
    Planned =>
        \A k \in 1..Len(conversion_data) :
            /\ Basename(conversion_data[k].schema) = CategoryOrder[k].schema
            /\ GroupConsistent(k)

----------------------------------------------------------------------------
(* Properties: the fixed-sample-tree variant *)

\* the script was called with the argument 'clean' and has ended
CleanArgumentRunEnded ==
    /\ call.fn = "build_assets.main"
    /\ \E i \in 1..Len(call.args) : call.args[i] = "clean"
    /\ pc \in {"done", "aborted"}

\* C14: a run of build_assets.py with the argument 'clean' ends with no
\* processed binary of an input of FLATBUFFERS_CONVERSION_DATA left as a file,
\* with no compiler invocation made, and with main returning 0.
C14_CleanArgumentDeletesBinaries ==
    CleanArgumentRunEnded =>
        /\ ret = 0
        /\ compiled = <<>>
        /\ \A j \in PlanInputs : ~isfile(fs, assets_processed_json_path(j, build_path))

----------------------------------------------------------------------------
(* Properties: two passes in a row *)

InSecondPass == call.fn = "build_project.main"

\* C16: in a build pass that follows a completed pass in which every compiler
\* invocation succeeded, on the unchanged project, no unit is handed to the
\* compiler and the filesystem stays as the pass found it; the pass ends with 0.
C16_RebuildIdempotence ==
    InSecondPass =>
        /\ compiled = <<>>
        /\ fs = call.fs
        /\ error = "none"
        /\ \A i \in 1..Len(checked) : ~checked[i].stale
        /\ pc = "done" => ret = 0

\* a second pass has completed after a first pass that compiled two units
C16_Witness ==
    /\ InSecondPass
    /\ pc = "done"
    /\ ret = 0
    /\ Len(call.first_compiled) >= 2
    /\ Len(checked) = Len(Units(conversion_data))
    /\ compiled = <<>>

\* C17: two distinct input paths of the plan never resolve to the same output
\* path.
C17_OutputPathsInjective ==
    Planned =>
        \A i, j \in PlanInputs :
            i # j => processed_json_path(i, project_path, build_path)
                       # processed_json_path(j, project_path, build_path)

====
